---- MODULE Spec2Model ----
(***************************************************************************)
(* Verification model of the speech-token decode loops and of the two      *)
(* servers of the repository:                                              *)
(*   - t3_inference_turbo_optimized (speaker_server.py), the production    *)
(*     multinomial decode loop, specification Spec;                        *)
(*   - the manual T3 loop of debug_python_tokens.py, the arg-max           *)
(*     diagnostic loop, specification SpecDebug;                           *)
(*   - the /speak handler of speaker_server.py, specification SpecHttp;    *)
(*   - the stdin/stdout server of speaker_pipe.py, specification SpecPipe. *)
(*                                                                         *)
(* Reals are fixed-point numbers in hundredths: One stands for 1.0, so     *)
(* temperature 0.1 is 10, top_p 0.95 is 95, repetition_penalty 1.2 is 120. *)
(***************************************************************************)
EXTENDS Integers, Sequences, FiniteSets, TLC

\* ------------------------------------------------------------------ bounds
\* number of token ids of the speech vocabulary (8194 in the real model)
VocabSize == 3
\* largest max_gen_len a call is made with (the default is 1500)
MaxGenLen == 2
\* longest request text of the /speak handler, in pieces
MaxTextLen == 3
\* number of /speak requests a behaviour serves
MaxRequests == 2
\* number of lines on the standard input of the pipe server
MaxLines == 3
\* longest input line of the pipe server, in pieces
MaxLineLen == 2
\* iterations of the diagnostic loop (range(20) in the script)
DebugSteps == 2
\* max_gen_len of the decode calls made at once
ConcGenLen == 1
\* longest request text of the handlers sharing the lock, in pieces
LockTextLen == 2

\* --------------------------------------------------------------- constants
\* the literal 1.0 of the guards of lines 43, 47 and 49
One == 100
\* self.hp.start_speech_token
START_TOKEN == 1
\* self.hp.stop_speech_token
STOP_TOKEN == 2

Vocab == 0 .. (VocabSize - 1)
\* the values a raw logit takes
LogitValues == {-1, 1}

\* the keyword arguments a call is made with, valid and invalid ones; a
\* negative top_p is left out: what becomes of it is decided by the
\* constructor of TopPLogitsWarper, outside the repository
Temperatures == {0, 10, One}
TopKs == {-1, 0, 2}
TopPs == {0, 95, One, 150}
Penalties == {One, 120}
Configs ==
    [temperature : Temperatures, top_k : TopKs, top_p : TopPs,
     repetition_penalty : Penalties, max_gen_len : 1 .. MaxGenLen]

\* SamplingConfig of the data model: temperature > 0, top_k >= 0,
\* top_p in (0, 1], repetition_penalty >= 1.0, max_steps positive
ValidConfig(c) ==
    /\ c.temperature > 0
    /\ c.top_k >= 0
    /\ c.top_p > 0 /\ c.top_p <= One
    /\ c.repetition_penalty >= One
    /\ c.max_gen_len >= 1

VARIABLES
    cfg,                      \* the keyword arguments of the decode call
    pc,                       \* position of the decode call
    logits_processors,        \* the LogitsProcessorList: stage names
    generated_speech_tokens,  \* list of sampled tokens
    current_speech_token,     \* token fed to the next transformer step
    past_key_values,          \* attention cache: the inputs it has absorbed
    speech_logits,            \* logits of the last transformer call
    i,                        \* loop index of `for i in range(max_gen_len)`
    log,                      \* the termination reports printed by the loop
    result,                   \* the returned token sequence
    oracleCalls,              \* number of self.tfmr calls made
    oracleFailed,             \* a self.tfmr call of this decode call raised
    drawn,                    \* tokens drawn by torch.multinomial, in order
    fed,                      \* tokens passed to self.speech_emb, in order
    applied,                  \* stages run by the last logits_processors call
    \* ---- the /speak handler of speaker_server.py
    hpc,                      \* position of the handler
    text,                     \* the sanitized request text
    chunks,                   \* split_text(text)
    chunk_i,                  \* number of chunks synthesized so far
    all_wav_data,             \* waveforms and silences collected so far
    lock_held,                \* the hardware FileLock is held
    response,                 \* the answer to the last request
    served,                   \* number of requests received
    \* ---- the stdin/stdout server of speaker_pipe.py
    ppc,                      \* position of the main block
    stdin,                    \* input lines not read yet
    stdout,                   \* lines written so far
    line_text,                \* text = line.strip() of the line being served
    consumed,                 \* the input lines read so far, in order
    \* ---- the manual T3 loop of debug_python_tokens.py, run twice
    dbg,                      \* state of each run
    oracleMemo,               \* logits the transformer returned, per context
    \* ---- several decode calls in progress at once
    calls,                    \* the locals of each call
    \* ---- several /speak handlers sharing the hardware lock file
    handlers,                 \* the locals of each handler
    lock_owner                \* the handler holding the FileLock, 0 if none

decodeVars ==
    <<cfg, pc, logits_processors, generated_speech_tokens,
      current_speech_token, past_key_values, speech_logits, i, log, result,
      oracleCalls, oracleFailed, drawn, fed, applied>>

\* state of the other programs, left alone by a decode call
httpVars ==
    <<hpc, text, chunks, chunk_i, all_wav_data, lock_held, response, served>>
pipeVars == <<ppc, stdin, stdout, line_text, consumed>>
dbgVars == <<dbg, oracleMemo>>
concVars == <<calls>>
lockVars == <<handlers, lock_owner>>
others == <<httpVars, pipeVars, dbgVars, concVars, lockVars>>

vars == <<decodeVars, others>>

Range(s) == {s[n] : n \in DOMAIN s}

\* ------------------------------------------------------------- the logits
\* A logit vector: a score per token, and the set of tokens a truncation
\* stage has set to -inf.  Scores are integers in a common positive unit:
\* a stage may return its result in a finer unit, which no comparison,
\* arg-max or softmax support depends on.
NoLogits == [score |-> [x \in Vocab |-> 0], masked |-> Vocab]
RawLogits == {[score |-> s, masked |-> {}] : s \in [Vocab -> LogitValues]}
Unmasked(l) == Vocab \ l.masked

\* ------------------------------------------------------------- the stages
\* RepetitionPenaltyLogitsProcessor(penalty)(input_ids, scores): the score of
\* every token of input_ids is multiplied by penalty when negative, divided
\* by it otherwise; -inf stays -inf.  Result in units of 1/(p * One).
RepetitionPenalty(p, ids, l) ==
    {[score |-> [x \in Vocab |->
                    IF x \in ids
                    THEN IF l.score[x] < 0 THEN l.score[x] * p * p
                                           ELSE l.score[x] * One * One
                    ELSE l.score[x] * p * One],
      masked |-> l.masked]}

\* TemperatureLogitsWarper(t)(scores) = scores / t.  Result in units of 1/t.
Temperature(t, l) ==
    {[score |-> [x \in Vocab |-> l.score[x] * One], masked |-> l.masked]}

\* number of tokens scored strictly above x
Above(l, x) == Cardinality({y \in Unmasked(l) : l.score[y] > l.score[x]})

Min(a, b) == IF a < b THEN a ELSE b

\* TopKLogitsWarper(k)(scores): every score below the k-th largest one
\* becomes -inf, k capped at the vocabulary size.
TopK(k, l) ==
    {[score |-> l.score,
      masked |-> l.masked \cup
                 {x \in Unmasked(l) : Above(l, x) >= Min(k, VocabSize)}]}

\* TopPLogitsWarper(p)(scores): the lowest-scored tokens whose cumulative
\* softmax mass is at most 1 - p become -inf, at least one token is kept.
\* Softmax masses are not computed here: every non-empty set of kept tokens
\* that no removed token outscores is a possible outcome.
TopP(p, l) ==
    {[score |-> l.score, masked |-> Vocab \ K] :
        K \in {S \in SUBSET Unmasked(l) :
                 /\ S # {}
                 /\ \A x \in S : \A y \in Unmasked(l) \ S :
                        l.score[y] <= l.score[x]}}

ApplyStage(stage, c, ids, l) ==
    CASE stage = "temperature" -> Temperature(c.temperature, l)
      [] stage = "top_k" -> TopK(c.top_k, l)
      [] stage = "top_p" -> TopP(c.top_p, l)
      [] stage = "repetition_penalty" ->
            RepetitionPenalty(c.repetition_penalty, ids, l)

\* LogitsProcessorList.__call__: the stages run in list order, each on the
\* output of the one before.  The set of possible processed logits.
RECURSIVE RunProcessors(_, _, _, _)
RunProcessors(procs, c, ids, l) ==
    IF procs = <<>> THEN {l}
    ELSE UNION {RunProcessors(Tail(procs), c, ids, m) :
                   m \in ApplyStage(Head(procs), c, ids, l)}

\* torch.multinomial(F.softmax(logits)): any token whose logit is not -inf
Multinomial(l) == Unmasked(l)

\* Processors with the top-p guard written `top_p <= 1.0`
ProcessorsNucleusAlways(c) ==
    (IF c.temperature > 0 /\ c.temperature # One
        THEN <<"temperature">> ELSE <<>>)
    \o (IF c.top_k > 0 THEN <<"top_k">> ELSE <<>>)
    \o (IF c.top_p <= One THEN <<"top_p">> ELSE <<>>)
    \o (IF c.repetition_penalty # One
        THEN <<"repetition_penalty">> ELSE <<>>)

\* lines 42-50: the list of enabled stages, in the order they are appended
Processors(c) ==
    (IF c.temperature > 0 /\ c.temperature # One
        THEN <<"temperature">> ELSE <<>>)
    \o (IF c.top_k > 0 THEN <<"top_k">> ELSE <<>>)
    \o (IF c.top_p < One THEN <<"top_p">> ELSE <<>>)
    \o (IF c.repetition_penalty # One
        THEN <<"repetition_penalty">> ELSE <<>>)

\* ------------------------------------------- t3_inference_turbo_optimized
\* state of a decode call that has not started
DecodeIdle ==
    /\ logits_processors = <<>>
    /\ generated_speech_tokens = <<>>
    /\ current_speech_token = START_TOKEN
    /\ past_key_values = <<>>
    /\ speech_logits = NoLogits
    /\ i = 0
    /\ log = <<>>
    /\ result = <<>>
    /\ oracleCalls = 0
    /\ oracleFailed = FALSE
    /\ drawn = <<>>
    /\ fed = <<>>
    /\ applied = <<>>

\* the /speak handler waiting for its first request
HttpIdle ==
    /\ hpc = "idle"
    /\ text = <<>>
    /\ chunks = <<>>
    /\ chunk_i = 0
    /\ all_wav_data = <<>>
    /\ lock_held = FALSE
    /\ response =
          [status |-> "none", message |-> "", text |-> <<>>, audio |-> <<>>]
    /\ served = 0

\* the pipe server not started
PipeIdle ==
    /\ ppc = "off"
    /\ stdin = <<>>
    /\ stdout = <<>>
    /\ line_text = <<>>
    /\ consumed = <<>>

\* the diagnostic script not started
DbgIdle ==
    /\ dbg = <<>>
    /\ oracleMemo = {}

\* no concurrent decode calls
ConcIdle == calls = <<>>

\* no handlers competing for the lock
LockIdle ==
    /\ handlers = <<>>
    /\ lock_owner = 0

Init ==
    /\ cfg \in Configs
    /\ pc = "build"
    /\ DecodeIdle
    /\ HttpIdle
    /\ PipeIdle
    /\ DbgIdle
    /\ ConcIdle
    /\ LockIdle

\* lines 42-50
BuildProcessors ==
    /\ pc = "build"
    /\ logits_processors' = Processors(cfg)
    /\ pc' = "prefill"
    /\ UNCHANGED <<cfg, oracleFailed, generated_speech_tokens,
                   current_speech_token,
                   past_key_values, speech_logits, i, log, result,
                   oracleCalls, drawn, fed, applied, others>>

\* lines 52-58: the prefill call of the transformer
Prefill ==
    /\ pc = "prefill"
    /\ \E l \in RawLogits : speech_logits' = l
    /\ generated_speech_tokens' = <<>>
    /\ past_key_values' = <<START_TOKEN>>
    /\ oracleCalls' = oracleCalls + 1
    /\ pc' = "first"
    /\ UNCHANGED <<cfg, oracleFailed, logits_processors, current_speech_token,
                   i, log,
                   result, drawn, fed, applied, others>>

\* line 56 raises: nothing catches it inside the function
PrefillRaises ==
    /\ pc = "prefill"
    /\ oracleCalls' = oracleCalls + 1
    /\ oracleFailed' = TRUE
    /\ pc' = "raised"
    /\ UNCHANGED <<cfg, logits_processors, generated_speech_tokens,
                   current_speech_token, past_key_values, speech_logits, i,
                   log, result, drawn, fed, applied, others>>

\* lines 60-66: the first token is drawn and appended
FirstSample ==
    /\ pc = "first"
    /\ \E pl \in RunProcessors(logits_processors, cfg, {START_TOKEN},
                               speech_logits) :
         \E t \in Multinomial(pl) :
            /\ generated_speech_tokens' = Append(generated_speech_tokens, t)
            /\ current_speech_token' = t
            /\ drawn' = Append(drawn, t)
    /\ applied' = logits_processors
    /\ i' = 0
    /\ pc' = "loop"
    /\ UNCHANGED <<cfg, oracleFailed, logits_processors, past_key_values,
                   speech_logits,
                   log, result, oracleCalls, fed, others>>

\* lines 68-72: one more iteration, the transformer step on the last token
LoopAdvance ==
    /\ pc = "loop"
    /\ i < cfg.max_gen_len
    /\ \E l \in RawLogits : speech_logits' = l
    /\ fed' = Append(fed, current_speech_token)
    /\ past_key_values' = Append(past_key_values, current_speech_token)
    /\ oracleCalls' = oracleCalls + 1
    /\ pc' = "sample"
    /\ UNCHANGED <<cfg, oracleFailed, logits_processors,
                   generated_speech_tokens,
                   current_speech_token, i, log, result, drawn, applied,
                   others>>

\* LoopAdvanceRaises with the exception caught inside the loop, which is
\* left with the tokens sampled so far
LoopAdvanceSwallowed ==
    /\ pc = "loop"
    /\ i < cfg.max_gen_len
    /\ fed' = Append(fed, current_speech_token)
    /\ oracleCalls' = oracleCalls + 1
    /\ oracleFailed' = TRUE
    /\ pc' = "return"
    /\ UNCHANGED <<cfg, logits_processors, generated_speech_tokens,
                   current_speech_token, past_key_values, speech_logits, i,
                   log, result, drawn, applied, others>>

\* line 70 raises
LoopAdvanceRaises ==
    /\ pc = "loop"
    /\ i < cfg.max_gen_len
    /\ fed' = Append(fed, current_speech_token)
    /\ oracleCalls' = oracleCalls + 1
    /\ oracleFailed' = TRUE
    /\ pc' = "raised"
    /\ UNCHANGED <<cfg, logits_processors, generated_speech_tokens,
                   current_speech_token, past_key_values, speech_logits, i,
                   log, result, drawn, applied, others>>

\* LoopSample without line 85: the token fed next is not renewed
LoopSampleStale ==
    /\ pc = "sample"
    /\ \E pl \in RunProcessors(logits_processors, cfg,
                               Range(generated_speech_tokens),
                               speech_logits) :
         \E t \in Multinomial(pl) :
            /\ drawn' = Append(drawn, t)
            /\ IF t = STOP_TOKEN
               THEN /\ log' = Append(log, "Hit STOP_TOKEN")
                    /\ pc' = "return"
                    /\ UNCHANGED <<generated_speech_tokens, i>>
               ELSE /\ generated_speech_tokens' =
                          Append(generated_speech_tokens, t)
                    /\ i' = i + 1
                    /\ pc' = "loop"
                    /\ UNCHANGED log
    /\ applied' = logits_processors
    /\ UNCHANGED <<cfg, oracleFailed, logits_processors, past_key_values,
                   speech_logits, current_speech_token, result, oracleCalls,
                   fed, others>>

\* lines 74-85: draw the next token; break on the stop token, else append
LoopSample ==
    /\ pc = "sample"
    /\ \E pl \in RunProcessors(logits_processors, cfg,
                               Range(generated_speech_tokens),
                               speech_logits) :
         \E t \in Multinomial(pl) :
            /\ drawn' = Append(drawn, t)
            /\ IF t = STOP_TOKEN
               THEN /\ log' = Append(log, "Hit STOP_TOKEN")
                    /\ pc' = "return"
                    /\ UNCHANGED <<generated_speech_tokens,
                                   current_speech_token, i>>
               ELSE /\ generated_speech_tokens' =
                          Append(generated_speech_tokens, t)
                    /\ current_speech_token' = t
                    /\ i' = i + 1
                    /\ pc' = "loop"
                    /\ UNCHANGED log
    /\ applied' = logits_processors
    /\ UNCHANGED <<cfg, oracleFailed, logits_processors, past_key_values,
                   speech_logits,
                   result, oracleCalls, fed, others>>

\* LoopExhausted without the else branch of the for loop: nothing reported
LoopExhaustedSilent ==
    /\ pc = "loop"
    /\ i >= cfg.max_gen_len
    /\ pc' = "return"
    /\ UNCHANGED <<cfg, oracleFailed, logits_processors,
                   generated_speech_tokens, current_speech_token,
                   past_key_values, speech_logits, i, log, result,
                   oracleCalls, drawn, fed, applied, others>>

\* lines 86-87: the range is exhausted, the else branch of the for loop
LoopExhausted ==
    /\ pc = "loop"
    /\ i >= cfg.max_gen_len
    /\ log' = Append(log, "Hit max_gen_len")
    /\ pc' = "return"
    /\ UNCHANGED <<cfg, oracleFailed, logits_processors,
                   generated_speech_tokens,
                   current_speech_token, past_key_values, speech_logits, i,
                   result, oracleCalls, drawn, fed, applied, others>>

\* lines 90-91: the cache is dropped and the token list returned
Return ==
    /\ pc = "return"
    /\ past_key_values' = <<>>
    /\ result' = generated_speech_tokens
    /\ pc' = "returned"
    /\ UNCHANGED <<cfg, oracleFailed, logits_processors,
                   generated_speech_tokens,
                   current_speech_token, speech_logits, i, log, oracleCalls,
                   drawn, fed, applied, others>>

Next ==
    \/ BuildProcessors
    \/ Prefill
    \/ PrefillRaises
    \/ FirstSample
    \/ LoopAdvance
    \/ LoopAdvanceRaises
    \/ LoopSample
    \/ LoopExhausted
    \/ Return

Spec == Init /\ [][Next]_vars

\* The function is straight-line sequential code: a call that can take its
\* next step takes it.
SpecFair == Spec /\ WF_vars(Next)

\* ------------------------------------------------------ the /speak handler
\* A text is a sequence of pieces: "a" a word, "." a punctuation mark of
\* [.!,?;], " " a whitespace character, "##" a markdown marker removed by
\* the sanitizer, "The system will" the meta-talk prefix.
Pieces == {"a", ".", " ", "##", "The system will"}

RECURSIVE SeqsUpTo(_, _)
SeqsUpTo(S, n) ==
    IF n = 0 THEN {<<>>}
    ELSE LET shorter == SeqsUpTo(S, n - 1)
         IN shorter \cup {Append(q, x) : q \in shorter, x \in S}

Texts == SeqsUpTo(Pieces, MaxTextLen)

RECURSIVE LStrip(_)
LStrip(s) == IF s # <<>> /\ Head(s) = " " THEN LStrip(Tail(s)) ELSE s

RECURSIVE RStrip(_)
RStrip(s) ==
    IF s # <<>> /\ s[Len(s)] = " " THEN RStrip(SubSeq(s, 1, Len(s) - 1))
    ELSE s

\* str.strip()
Strip(s) == RStrip(LStrip(s))

IsMarker(x) == x = "##"
NotMarker(x) == ~IsMarker(x)

\* "Hello. How can I help you?"
Greeting == <<"a", ".", " ", "a", ".">>

\* lines 123-125
Sanitize(t) ==
    LET stripped == Strip(SelectSeq(t, NotMarker))
    IN IF stripped # <<>> /\ Head(stripped) = "The system will"
       THEN Greeting ELSE stripped

\* re.split(r'(?<=[.!,?;])\s+', text): cur is the part being collected
RECURSIVE ReSplit(_, _)
ReSplit(s, cur) ==
    IF s = <<>> THEN <<cur>>
    ELSE IF Head(s) = " " /\ cur # <<>> /\ cur[Len(cur)] = "."
         THEN <<cur>> \o ReSplit(LStrip(s), <<>>)
         ELSE ReSplit(Tail(s), Append(cur, Head(s)))

NonEmpty(c) == c # <<>>

RECURSIVE StripAll(_)
StripAll(cs) ==
    IF cs = <<>> THEN <<>> ELSE <<Strip(Head(cs))>> \o StripAll(Tail(cs))

\* lines 114-118
split_text(t) == SelectSeq(StripAll(ReSplit(t, <<>>)), NonEmpty)

\* the arguments cb.generate passes to T3.inference_turbo: top_k and
\* temperature of line 147, the library's defaults for the others
GenerateConfig ==
    [temperature |-> 10, top_k |-> 50, top_p |-> 95,
     repetition_penalty |-> 120, max_gen_len |-> MaxGenLen]

NoResponse ==
    [status |-> "none", message |-> "", text |-> <<>>, audio |-> <<>>]
\* {"status": "error", "message": ...}: no text, no audio
ErrorResponse(m) ==
    [status |-> "error", message |-> m, text |-> <<>>, audio |-> <<>>]

\* the locals of a decode call that is entered or left
FreshLocals ==
    /\ logits_processors' = <<>>
    /\ generated_speech_tokens' = <<>>
    /\ current_speech_token' = START_TOKEN
    /\ past_key_values' = <<>>
    /\ speech_logits' = NoLogits
    /\ i' = 0
    /\ log' = <<>>
    /\ result' = <<>>
    /\ oracleCalls' = 0
    /\ oracleFailed' = FALSE
    /\ drawn' = <<>>
    /\ fed' = <<>>
    /\ applied' = <<>>

\* the locals of the handler when it returns
HandlerReturns ==
    /\ text' = <<>>
    /\ chunks' = <<>>
    /\ chunk_i' = 0
    /\ all_wav_data' = <<>>
    /\ hpc' = "idle"

\* lines 121-137: a request arrives, is sanitized and split
Receive ==
    /\ hpc = "idle"
    /\ served < MaxRequests
    /\ \E raw \in Texts :
         IF split_text(Sanitize(raw)) = <<>>
         THEN /\ response' = ErrorResponse("No text to synthesize")
              /\ HandlerReturns
         ELSE /\ response' = NoResponse
              /\ text' = Sanitize(raw)
              /\ chunks' = split_text(Sanitize(raw))
              /\ chunk_i' = 0
              /\ all_wav_data' = <<>>
              /\ hpc' = "lock"
    /\ served' = served + 1
    /\ UNCHANGED <<lock_held, decodeVars, pipeVars, dbgVars,
                   concVars, lockVars>>

\* line 140: `with lock` is entered
AcquireLock ==
    /\ hpc = "lock"
    /\ ~lock_held
    /\ lock_held' = TRUE
    /\ hpc' = "chunk"
    /\ UNCHANGED <<text, chunks, chunk_i, all_wav_data, response, served,
                   decodeVars, pipeVars, dbgVars,
                   concVars, lockVars>>

\* lines 141-147: the next chunk is handed to cb.generate, which calls the
\* decode loop
StartChunk ==
    /\ hpc = "chunk"
    /\ chunk_i < Len(chunks)
    /\ hpc' = "generate"
    /\ cfg' = GenerateConfig
    /\ pc' = "build"
    /\ FreshLocals
    /\ UNCHANGED <<text, chunks, chunk_i, all_wav_data, lock_held, response,
                   served, pipeVars, dbgVars,
                   concVars, lockVars>>

\* lines 147-155: the decode loop has returned, the vocoder makes the
\* waveform, which is collected followed by a silence
FinishChunk ==
    /\ hpc = "generate"
    /\ pc = "returned"
    /\ all_wav_data' =
          all_wav_data \o <<[wav |-> chunks[chunk_i + 1]], [wav |-> <<>>]>>
    /\ chunk_i' = chunk_i + 1
    /\ hpc' = "chunk"
    /\ pc' = "idle"
    /\ FreshLocals
    /\ UNCHANGED <<cfg, text, chunks, lock_held, response, served,
                   pipeVars, dbgVars,
                   concVars, lockVars>>

\* lines 139-140, 170-173: cb.generate raises, in the decode loop or after
\* it: the `with` block releases the lock and the handler answers an error
GenerateRaises ==
    /\ hpc = "generate"
    /\ pc \in {"raised", "returned"}
    /\ lock_held' = FALSE
    /\ response' = ErrorResponse(IF pc = "raised" THEN "oracle" ELSE "vocoder")
    /\ HandlerReturns
    /\ pc' = "idle"
    /\ FreshLocals
    /\ UNCHANGED <<cfg, served, pipeVars, dbgVars,
                   concVars, lockVars>>

\* line 141 exhausted, line 140 left: the lock is released
ReleaseLock ==
    /\ hpc = "chunk"
    /\ chunk_i >= Len(chunks)
    /\ lock_held' = FALSE
    /\ hpc' = "combine"
    /\ UNCHANGED <<text, chunks, chunk_i, all_wav_data, response, served,
                   decodeVars, pipeVars, dbgVars,
                   concVars, lockVars>>

\* lines 158-169: the waveforms are concatenated, encoded and returned
Combine ==
    /\ hpc = "combine"
    /\ response' = [status |-> "ok", message |-> "", text |-> text,
           audio |-> all_wav_data]
    /\ HandlerReturns
    /\ UNCHANGED <<lock_held, served, decodeVars, pipeVars, dbgVars,
                   concVars, lockVars>>

\* lines 158-162 raise, lines 170-173
CombineRaises ==
    /\ hpc = "combine"
    /\ response' = ErrorResponse("encode")
    /\ HandlerReturns
    /\ UNCHANGED <<lock_held, served, decodeVars, pipeVars, dbgVars,
                   concVars, lockVars>>

InitHttp ==
    /\ cfg = GenerateConfig
    /\ pc = "idle"
    /\ DecodeIdle
    /\ HttpIdle
    /\ PipeIdle
    /\ DbgIdle
    /\ ConcIdle
    /\ LockIdle

NextHttp ==
    \/ Receive
    \/ AcquireLock
    \/ StartChunk
    \/ BuildProcessors
    \/ Prefill
    \/ PrefillRaises
    \/ FirstSample
    \/ LoopAdvance
    \/ LoopAdvanceRaises
    \/ LoopSample
    \/ LoopExhausted
    \/ Return
    \/ FinishChunk
    \/ GenerateRaises
    \/ ReleaseLock
    \/ Combine
    \/ CombineRaises

SpecHttp == InitHttp /\ [][NextHttp]_vars

\* --------------------------------------------------- the pipe server
\* An input line is a sequence of pieces: " " a whitespace character,
\* "EXIT" the four letters of the sentinel, "a" any other word.
LinePieces == {" ", "EXIT", "a"}
Lines == SeqsUpTo(LinePieces, MaxLineLen)

READY == [kind |-> "READY", of |-> <<>>]
\* "AUDIO:" followed by the base64 of the waveform synthesized for the text
AUDIO(t) == [kind |-> "AUDIO", of |-> t]
\* "ERROR:" followed by the message of the exception
ERROR == [kind |-> "ERROR", of |-> <<>>]

InitPipe ==
    /\ cfg = GenerateConfig
    /\ pc = "idle"
    /\ DecodeIdle
    /\ HttpIdle
    /\ DbgIdle
    /\ ppc = "start"
    /\ stdin \in SeqsUpTo(Lines, MaxLines)
    /\ stdout = <<>>
    /\ line_text = <<>>
    /\ consumed = <<>>
    /\ ConcIdle
    /\ LockIdle

\* lines 39-41
PipeReady ==
    /\ ppc = "start"
    /\ stdout' = Append(stdout, READY)
    /\ ppc' = "read"
    /\ UNCHANGED <<stdin, line_text, consumed, decodeVars, httpVars, dbgVars,
                   concVars, lockVars>>

\* lines 43-46: a line is read, it is blank once stripped
ReadBlank ==
    /\ ppc = "read"
    /\ stdin # <<>>
    /\ Strip(Head(stdin)) = <<>>
    /\ stdin' = Tail(stdin)
    /\ consumed' = Append(consumed, Head(stdin))
    /\ UNCHANGED <<ppc, stdout, line_text, decodeVars, httpVars, dbgVars,
                   concVars, lockVars>>

\* lines 43-48: a line is read, its stripped text is the sentinel
ReadExit ==
    /\ ppc = "read"
    /\ stdin # <<>>
    /\ Strip(Head(stdin)) = <<"EXIT">>
    /\ stdin' = Tail(stdin)
    /\ consumed' = Append(consumed, Head(stdin))
    /\ ppc' = "exited"
    /\ UNCHANGED <<stdout, line_text, decodeVars, httpVars, dbgVars,
                   concVars, lockVars>>

\* lines 43-49: a line is read and handed to speak
ReadText ==
    /\ ppc = "read"
    /\ stdin # <<>>
    /\ Strip(Head(stdin)) \notin {<<>>, <<"EXIT">>}
    /\ stdin' = Tail(stdin)
    /\ consumed' = Append(consumed, Head(stdin))
    /\ line_text' = Strip(Head(stdin))
    /\ ppc' = "speak"
    /\ UNCHANGED <<stdout, decodeVars, httpVars, dbgVars,
                   concVars, lockVars>>

\* line 43: end of input
EndOfInput ==
    /\ ppc = "read"
    /\ stdin = <<>>
    /\ ppc' = "exited"
    /\ UNCHANGED <<stdin, stdout, line_text, consumed, decodeVars, httpVars,
                   dbgVars,
                   concVars, lockVars>>

\* lines 18-33: synthesis succeeds
SpeakAudio ==
    /\ ppc = "speak"
    /\ stdout' = Append(stdout, AUDIO(line_text))
    /\ ppc' = "read"
    /\ UNCHANGED <<stdin, line_text, consumed, decodeVars, httpVars, dbgVars,
                   concVars, lockVars>>

\* SpeakError with an except branch that prints nothing
SpeakErrorSilent ==
    /\ ppc = "speak"
    /\ ppc' = "read"
    /\ UNCHANGED <<stdin, stdout, line_text, consumed, decodeVars, httpVars,
                   dbgVars,
                   concVars, lockVars>>

\* SpeakError with a failure that ends the serving loop
SpeakErrorExits ==
    /\ ppc = "speak"
    /\ stdout' = Append(stdout, ERROR)
    /\ ppc' = "exited"
    /\ UNCHANGED <<stdin, line_text, consumed, decodeVars, httpVars, dbgVars,
                   concVars, lockVars>>

\* lines 18-26 raise, lines 34-36
SpeakError ==
    /\ ppc = "speak"
    /\ stdout' = Append(stdout, ERROR)
    /\ ppc' = "read"
    /\ UNCHANGED <<stdin, line_text, consumed, decodeVars, httpVars, dbgVars,
                   concVars, lockVars>>

NextPipe ==
    \/ PipeReady
    \/ ReadBlank
    \/ ReadExit
    \/ ReadText
    \/ EndOfInput
    \/ SpeakAudio
    \/ SpeakError

SpecPipe == InitPipe /\ [][NextPipe]_vars

\* ------------------------------------------------- the diagnostic loop
Runs == 1 .. 2

\* RepetitionPenaltyLogitsProcessor(1.2) of line 25
DebugPenalty == 120

\* torch.argmax: the first of the highest-scored tokens
ArgMax(l) ==
    CHOOSE x \in Unmasked(l) :
        \A y \in Unmasked(l) :
            \/ l.score[y] < l.score[x]
            \/ l.score[y] = l.score[x] /\ x <= y

\* DebugPick with the multinomial draw of the production loop
DebugPickMultinomial(l) == Multinomial(l)

\* line 43: the tokens the step can pick
DebugPick(l) == {ArgMax(l)}

\* the transformer is a function of the context it has absorbed: a context
\* seen before gets the logits it got then
OracleReturns(ctx, l) ==
    /\ l \in RawLogits
    /\ \A m \in oracleMemo : m.ctx = ctx => m.out = l
    /\ oracleMemo' = oracleMemo \cup {[ctx |-> ctx, out |-> l]}

InitDebug ==
    /\ cfg = GenerateConfig
    /\ pc = "idle"
    /\ DecodeIdle
    /\ HttpIdle
    /\ PipeIdle
    /\ dbg = [r \in Runs |->
                [pc |-> "prefill", speech_tokens |-> <<START_TOKEN>>,
                 past_key_values |-> <<>>, logits |-> NoLogits, i |-> 0,
                 printed |-> <<>>, fed |-> <<>>]]
    /\ oracleMemo = {}
    /\ ConcIdle
    /\ LockIdle

\* lines 35-38: the prefill
DbgPrefill(r) ==
    /\ dbg[r].pc = "prefill"
    /\ \E l \in RawLogits :
         /\ OracleReturns(<<START_TOKEN>>, l)
         /\ dbg' = [dbg EXCEPT ![r].logits = l,
                               ![r].past_key_values = <<START_TOKEN>>,
                               ![r].pc = "sample"]
    /\ UNCHANGED <<decodeVars, httpVars, pipeVars,
                   concVars, lockVars>>

\* lines 40-48: the token of step i is picked and printed; the loop is left
\* on the stop token, else the token is appended
DbgSample(r) ==
    /\ dbg[r].pc = "sample"
    /\ \E pl \in RepetitionPenalty(DebugPenalty, Range(dbg[r].speech_tokens),
                                   dbg[r].logits) :
         \E t \in DebugPick(pl) :
            dbg' = [dbg EXCEPT
                      ![r].printed = Append(@, t),
                      ![r].speech_tokens =
                          IF t = STOP_TOKEN THEN @ ELSE Append(@, t),
                      ![r].pc = IF t = STOP_TOKEN THEN "done" ELSE "advance"]
    /\ UNCHANGED <<oracleMemo, decodeVars, httpVars, pipeVars,
                   concVars, lockVars>>

\* lines 50-54 and line 40: the transformer step on the token just
\* appended, then the next iteration if there is one
DbgAdvance(r) ==
    /\ dbg[r].pc = "advance"
    /\ LET tok == dbg[r].speech_tokens[Len(dbg[r].speech_tokens)]
           ctx == Append(dbg[r].past_key_values, tok)
       IN \E l \in RawLogits :
            /\ OracleReturns(ctx, l)
            /\ dbg' = [dbg EXCEPT
                         ![r].logits = l,
                         ![r].past_key_values = ctx,
                         ![r].fed = Append(@, tok),
                         ![r].i = @ + 1,
                         ![r].pc = IF dbg[r].i + 1 < DebugSteps
                                   THEN "sample" ELSE "done"]
    /\ UNCHANGED <<decodeVars, httpVars, pipeVars,
                   concVars, lockVars>>

NextDebug ==
    \/ \E r \in Runs : DbgPrefill(r)
    \/ \E r \in Runs : DbgSample(r)
    \/ \E r \in Runs : DbgAdvance(r)

SpecDebug == InitDebug /\ [][NextDebug]_vars

\* --------------------------------------- decode calls in progress at once
\* Every name the function assigns is a local of the call: each call has
\* its own frame, that is its own record here.  The calls are made with the
\* arguments of cb.generate.
Calls == 1 .. 2

ConcConfig == [GenerateConfig EXCEPT !.max_gen_len = ConcGenLen]

NewCall ==
    [pc |-> "build", logits_processors |-> <<>>,
     generated_speech_tokens |-> <<>>,
     current_speech_token |-> START_TOKEN, past_key_values |-> <<>>,
     speech_logits |-> NoLogits, i |-> 0, fed |-> <<>>, result |-> <<>>]

InitConc ==
    /\ cfg = ConcConfig
    /\ pc = "idle"
    /\ DecodeIdle
    /\ HttpIdle
    /\ PipeIdle
    /\ DbgIdle
    /\ LockIdle
    /\ calls = [c \in Calls |-> NewCall]

ConcFrame == UNCHANGED <<decodeVars, httpVars, pipeVars, dbgVars, lockVars>>

\* lines 42-50
CallBuild(c) ==
    /\ calls[c].pc = "build"
    /\ calls' = [calls EXCEPT ![c].logits_processors = Processors(cfg),
                              ![c].pc = "prefill"]
    /\ ConcFrame

\* lines 52-58
CallPrefill(c) ==
    /\ calls[c].pc = "prefill"
    /\ \E l \in RawLogits :
         calls' = [calls EXCEPT ![c].speech_logits = l,
                                ![c].past_key_values = <<START_TOKEN>>,
                                ![c].pc = "first"]
    /\ ConcFrame

\* lines 60-66
CallFirstSample(c) ==
    /\ calls[c].pc = "first"
    /\ \E pl \in RunProcessors(calls[c].logits_processors, cfg,
                               {START_TOKEN}, calls[c].speech_logits) :
         \E t \in Multinomial(pl) :
            calls' = [calls EXCEPT
                        ![c].generated_speech_tokens = Append(@, t),
                        ![c].current_speech_token = t,
                        ![c].pc = "loop"]
    /\ ConcFrame

\* Advanced with one cache kept for all calls, the one call 1 holds
AdvancedOnSharedCache(c, l) ==
    [calls[c] EXCEPT
        !.fed = Append(@, calls[c].current_speech_token),
        !.past_key_values =
            Append(calls[1].past_key_values, calls[c].current_speech_token),
        !.speech_logits = l,
        !.pc = "sample"]

\* the new value of a call's record after lines 68-72: the transformer step
\* on the call's own last token, with the call's own cache
Advanced(c, l) ==
    [calls[c] EXCEPT
        !.fed = Append(@, calls[c].current_speech_token),
        !.past_key_values = Append(@, calls[c].current_speech_token),
        !.speech_logits = l,
        !.pc = "sample"]

\* lines 68-72
CallAdvance(c) ==
    /\ calls[c].pc = "loop"
    /\ calls[c].i < cfg.max_gen_len
    /\ \E l \in RawLogits : calls' = [calls EXCEPT ![c] = Advanced(c, l)]
    /\ ConcFrame

\* lines 56 or 70 raise
CallRaises(c) ==
    /\ \/ calls[c].pc = "prefill"
       \/ calls[c].pc = "loop" /\ calls[c].i < cfg.max_gen_len
    /\ calls' = [calls EXCEPT ![c].pc = "raised"]
    /\ ConcFrame

\* lines 74-85
CallSample(c) ==
    /\ calls[c].pc = "sample"
    /\ \E pl \in RunProcessors(calls[c].logits_processors, cfg,
                               Range(calls[c].generated_speech_tokens),
                               calls[c].speech_logits) :
         \E t \in Multinomial(pl) :
            calls' = [calls EXCEPT
                        ![c].generated_speech_tokens =
                            IF t = STOP_TOKEN THEN @ ELSE Append(@, t),
                        ![c].current_speech_token =
                            IF t = STOP_TOKEN THEN @ ELSE t,
                        ![c].i = IF t = STOP_TOKEN THEN @ ELSE @ + 1,
                        ![c].pc = IF t = STOP_TOKEN THEN "return" ELSE "loop"]
    /\ ConcFrame

\* lines 86-87
CallExhausted(c) ==
    /\ calls[c].pc = "loop"
    /\ calls[c].i >= cfg.max_gen_len
    /\ calls' = [calls EXCEPT ![c].pc = "return"]
    /\ ConcFrame

\* lines 90-91
CallReturn(c) ==
    /\ calls[c].pc = "return"
    /\ calls' = [calls EXCEPT
                   ![c].past_key_values = <<>>,
                   ![c].result = calls[c].generated_speech_tokens,
                   ![c].pc = "returned"]
    /\ ConcFrame

NextConc ==
    \/ \E c \in Calls : CallBuild(c)
    \/ \E c \in Calls : CallPrefill(c)
    \/ \E c \in Calls : CallFirstSample(c)
    \/ \E c \in Calls : CallAdvance(c)
    \/ \E c \in Calls : CallRaises(c)
    \/ \E c \in Calls : CallSample(c)
    \/ \E c \in Calls : CallExhausted(c)
    \/ \E c \in Calls : CallReturn(c)

SpecConc == InitConc /\ [][NextConc]_vars

\* ------------------------------------- handlers sharing the lock file
\* Inside one server process the handler is a coroutine without an await,
\* so two requests never overlap there.  Requests overlap when several
\* processes serve: each has its own locals and its own FileLock object,
\* all on the file HW_LOCK_FILE.  cb.generate is one step here; its decode
\* loop is that of SpecHttp.
Handlers == 1 .. 2

NewHandler ==
    [hpc |-> "idle", text |-> <<>>, chunks |-> <<>>, chunk_i |-> 0,
     all_wav_data |-> <<>>, response |-> NoResponse]

InitLock ==
    /\ cfg = GenerateConfig
    /\ pc = "idle"
    /\ DecodeIdle
    /\ HttpIdle
    /\ PipeIdle
    /\ DbgIdle
    /\ ConcIdle
    /\ handlers = [h \in Handlers |-> NewHandler]
    /\ lock_owner = 0

LockFrame == UNCHANGED <<decodeVars, httpVars, pipeVars, dbgVars, concVars>>

\* the locals of handler h when it returns response r
Returning(h, r) ==
    [handlers EXCEPT ![h] = [NewHandler EXCEPT !.response = r]]

\* the request texts as they are after lines 123-125
LockTexts == {Sanitize(raw) : raw \in SeqsUpTo(Pieces, LockTextLen)}

\* lines 121-137
HReceive(h) ==
    /\ handlers[h].hpc = "idle"
    /\ \E t \in LockTexts :
         IF split_text(t) = <<>>
         THEN handlers' = Returning(h, ErrorResponse("No text to synthesize"))
         ELSE handlers' =
                 [handlers EXCEPT
                     ![h] = [NewHandler EXCEPT
                                !.text = t,
                                !.chunks = split_text(t),
                                !.hpc = "lock"]]
    /\ UNCHANGED lock_owner
    /\ LockFrame

\* line 140: FileLock.acquire blocks until the file is free
HAcquireLock(h) ==
    /\ handlers[h].hpc = "lock"
    /\ lock_owner = 0
    /\ lock_owner' = h
    /\ handlers' = [handlers EXCEPT ![h].hpc = "chunk"]
    /\ LockFrame

\* lines 141-147: cb.generate is called on the next chunk
HStartChunk(h) ==
    /\ handlers[h].hpc = "chunk"
    /\ handlers[h].chunk_i < Len(handlers[h].chunks)
    /\ handlers' = [handlers EXCEPT ![h].hpc = "generate"]
    /\ UNCHANGED lock_owner
    /\ LockFrame

\* lines 147-155: cb.generate returns the waveform
HFinishChunk(h) ==
    /\ handlers[h].hpc = "generate"
    /\ handlers' =
          [handlers EXCEPT
              ![h].all_wav_data =
                  @ \o <<[wav |-> handlers[h].chunks[handlers[h].chunk_i + 1]],
                         [wav |-> <<>>]>>,
              ![h].chunk_i = @ + 1,
              ![h].hpc = "chunk"]
    /\ UNCHANGED lock_owner
    /\ LockFrame

\* HGenerateRaises with the lock acquired and released by hand, the release
\* being skipped by the exception
HGenerateRaisesHolding(h) ==
    /\ handlers[h].hpc = "generate"
    /\ handlers' = Returning(h, ErrorResponse("generate"))
    /\ UNCHANGED lock_owner
    /\ LockFrame

\* lines 139-140, 170-173: cb.generate raises, the `with` block releases
\* the lock, the handler answers an error
HGenerateRaises(h) ==
    /\ handlers[h].hpc = "generate"
    /\ lock_owner' = 0
    /\ handlers' = Returning(h, ErrorResponse("generate"))
    /\ LockFrame

\* line 141 exhausted, line 140 left
HReleaseLock(h) ==
    /\ handlers[h].hpc = "chunk"
    /\ handlers[h].chunk_i >= Len(handlers[h].chunks)
    /\ lock_owner' = 0
    /\ handlers' = [handlers EXCEPT ![h].hpc = "combine"]
    /\ LockFrame

\* lines 158-169
HCombine(h) ==
    /\ handlers[h].hpc = "combine"
    /\ handlers' =
          Returning(h, [status |-> "ok", message |-> "",
                        text |-> handlers[h].text,
                        audio |-> handlers[h].all_wav_data])
    /\ UNCHANGED lock_owner
    /\ LockFrame

\* lines 158-162 raise, lines 170-173
HCombineRaises(h) ==
    /\ handlers[h].hpc = "combine"
    /\ handlers' = Returning(h, ErrorResponse("encode"))
    /\ UNCHANGED lock_owner
    /\ LockFrame

NextLock ==
    \/ \E h \in Handlers : HReceive(h)
    \/ \E h \in Handlers : HAcquireLock(h)
    \/ \E h \in Handlers : HStartChunk(h)
    \/ \E h \in Handlers : HFinishChunk(h)
    \/ \E h \in Handlers : HGenerateRaises(h)
    \/ \E h \in Handlers : HReleaseLock(h)
    \/ \E h \in Handlers : HCombine(h)
    \/ \E h \in Handlers : HCombineRaises(h)

SpecLock == InitLock /\ [][NextLock]_vars

\* ------------------------------------------------- either decode loop
\* a production call or the runs of the diagnostic script
InitLoops == Init \/ InitDebug

NextLoops ==
    \/ BuildProcessors
    \/ Prefill
    \/ PrefillRaises
    \/ FirstSample
    \/ LoopAdvance
    \/ LoopAdvanceRaises
    \/ LoopSample
    \/ LoopExhausted
    \/ Return
    \/ \E r \in DOMAIN dbg : DbgPrefill(r)
    \/ \E r \in DOMAIN dbg : DbgSample(r)
    \/ \E r \in DOMAIN dbg : DbgAdvance(r)

SpecLoops == InitLoops /\ [][NextLoops]_vars

\* ================================================================ claims
Returned == pc = "returned"

\* C1: the sequence returned by the production decode loop never contains
\* the stop token, at any position.  Violated: the first token drawn is
\* appended without being compared with STOP_TOKEN (lines 61-62).
C1_NoStopInResult == Returned => STOP_TOKEN \notin Range(result)

\* C2: for a valid configuration the returned sequence has at most
\* max_gen_len elements.  Violated: one token is appended before the loop
\* and up to max_gen_len inside it.
C2_LengthAtMostMax ==
    (Returned /\ ValidConfig(cfg)) => Len(result) <= cfg.max_gen_len

\* C3: if the first token drawn in a valid call is the stop token, no
\* further transformer call is made and the returned sequence is empty.
C3_FirstStopReturnsEmpty ==
    (ValidConfig(cfg) /\ drawn # <<>> /\ drawn[1] = STOP_TOKEN) =>
        /\ oracleCalls = 1
        /\ Returned => result = <<>>

\* C4: when the stop token is never drawn, the returned sequence has
\* exactly max_gen_len elements.
C4_ExactlyMaxWithoutStop ==
    (Returned /\ ValidConfig(cfg) /\ STOP_TOKEN \notin Range(drawn)) =>
        Len(result) = cfg.max_gen_len

\* C5: a call with an invalid configuration makes no transformer call and
\* does not return a sequence.
C5_InvalidConfigRejected ==
    ~ValidConfig(cfg) => (oracleCalls = 0 /\ ~Returned)

\* position of a stage in the order repetition penalty, temperature,
\* top-k, top-p
StageRank(stage) ==
    CASE stage = "repetition_penalty" -> 1
      [] stage = "temperature" -> 2
      [] stage = "top_k" -> 3
      [] stage = "top_p" -> 4

\* C6: the stages run by a logits_processors call are in the order
\* repetition penalty, temperature, top-k, top-p; the penalty, when
\* enabled, is the first stage and so works on the raw logits.
C6_PenaltyFirstOrder ==
    \A m, n \in DOMAIN applied :
        m < n => StageRank(applied[m]) < StageRank(applied[n])

\* C7: for a valid configuration a stage is in the pipeline exactly when
\* its parameter differs from its disabling value: top_k from 0, top_p,
\* repetition_penalty and temperature from 1.0.
C7_StageEnabledIff ==
    (ValidConfig(cfg) /\ pc \notin {"build", "idle"}) =>
        /\ ("top_k" \in Range(logits_processors)) <=> (cfg.top_k # 0)
        /\ ("top_p" \in Range(logits_processors)) <=> (cfg.top_p # One)
        /\ ("repetition_penalty" \in Range(logits_processors))
               <=> (cfg.repetition_penalty # One)
        /\ ("temperature" \in Range(logits_processors))
               <=> (cfg.temperature # One)
        /\ (drawn # <<>> => applied = logits_processors)

\* a valid call with top-k and top-p disabled has drawn a token through the
\* two remaining stages
C7_Witness ==
    /\ ValidConfig(cfg)
    /\ cfg.top_k = 0 /\ cfg.top_p = One
    /\ cfg.temperature # One /\ cfg.repetition_penalty # One
    /\ pc = "sample"
    /\ applied = <<"temperature", "repetition_penalty">>

C9_FailurePropagates ==
    [][oracleFailed =>
          /\ pc = "raised"
          /\ result = <<>>
          /\ oracleCalls' <= oracleCalls
          /\ hpc = "generate" =>
                /\ response'.status = "error"
                /\ response'.audio = <<>>
                /\ hpc' = "idle"]_vars

\* the transformer step of the second chunk has raised after a token was
\* sampled, the waveform of the first chunk being already collected
C9_Witness ==
    /\ oracleFailed
    /\ hpc = "generate"
    /\ chunk_i >= 1 /\ all_wav_data # <<>>
    /\ generated_speech_tokens # <<>>

\* a line as read is not empty and is not the sentinel
RawRequest(l) == l # <<>> /\ l # <<"EXIT">>
\* the stripped text of a line is not empty and is not the sentinel
TextRequest(l) == Strip(l) \notin {<<>>, <<"EXIT">>}

\* READY is the first line written, once and before any line is read, and
\* the lines after it answer the expected requests one for one, in order,
\* each before the next line is read
Answered(expected) ==
    /\ ppc = "start" => (stdout = <<>> /\ consumed = <<>>)
    /\ ppc # "start" => (stdout # <<>> /\ stdout[1] = READY)
    /\ \A n \in DOMAIN stdout : n > 1 => stdout[n] # READY
    /\ ppc \in {"read", "exited"} => Len(stdout) = 1 + Len(expected)
    /\ ppc = "speak" => Len(stdout) = Len(expected)
    /\ \A n \in DOMAIN stdout :
          n > 1 => /\ n - 1 \in DOMAIN expected
                   /\ stdout[n] \in {AUDIO(Strip(expected[n - 1])), ERROR}

\* C10 as stated: every input line read that is not empty and is not
\* "EXIT" gets exactly one response line.
C10_EveryNonEmptyLineAnswered == Answered(SelectSeq(consumed, RawRequest))

\* C10: READY is written once, before any line is read; every line read
\* whose stripped text is neither empty nor "EXIT" gets exactly one
\* response line, AUDIO or ERROR, in request order and before the next line
\* is read; a line of whitespace only gets none.
C10_EveryTextLineAnswered == Answered(SelectSeq(consumed, TextRequest))

\* a whitespace-only line was skipped and the text line after it answered
C10_Witness ==
    /\ ppc = "read"
    /\ Len(consumed) = 2
    /\ consumed[1] # <<>> /\ Strip(consumed[1]) = <<>>
    /\ Len(stdout) = 2
    /\ stdout[2] = AUDIO(Strip(consumed[2]))

C12_TerminatesInOneMode ==
    /\ [](Returned =>
            /\ log \in {<<"Hit STOP_TOKEN">>, <<"Hit max_gen_len">>}
            /\ log = <<"Hit STOP_TOKEN">> =>
                  /\ Len(drawn) >= 2
                  /\ drawn[Len(drawn)] = STOP_TOKEN
                  /\ i < cfg.max_gen_len
            /\ log = <<"Hit max_gen_len">> =>
                  /\ i = cfg.max_gen_len
                  /\ \A n \in DOMAIN drawn : n > 1 => drawn[n] # STOP_TOKEN
            /\ result = generated_speech_tokens
            /\ ~oracleFailed)
    /\ [](~Returned => Len(log) <= 1)
    /\ <>(Returned \/ oracleFailed)

\* a call has returned at the length cap
C12_Witness ==
    /\ Returned
    /\ log = <<"Hit max_gen_len">>
    /\ i = cfg.max_gen_len
    /\ Len(result) = cfg.max_gen_len + 1

\* the cache of call c is alive
CacheAlive(c) == calls[c].pc \in {"first", "loop", "sample", "return"}

\* C13: with several decode calls in progress, a step changes the locals of
\* one call only, and the cache of each call holds the prefill followed by
\* the tokens that very call fed, which are tokens of its own list: no call
\* reads or writes the cache or the token list of another.
C13_CallsIndependent ==
    [][/\ \A c, d \in Calls :
             (c # d /\ calls'[c] # calls[c]) => calls'[d] = calls[d]
       /\ \A c \in Calls :
             /\ CacheAlive(c)' =>
                   calls'[c].past_key_values
                       = <<START_TOKEN>> \o calls'[c].fed
             /\ calls'[c].pc # "raised" =>
                   /\ Len(calls'[c].fed)
                          <= Len(calls'[c].generated_speech_tokens)
                   /\ calls'[c].fed =
                          SubSeq(calls'[c].generated_speech_tokens, 1,
                                 Len(calls'[c].fed))]_vars

\* both calls are in their loops with different tokens in their caches
C13_Witness ==
    /\ calls[1].pc = "sample" /\ calls[2].pc = "sample"
    /\ calls[1].past_key_values # calls[2].past_key_values
    /\ Len(calls[1].past_key_values) = 2
    /\ Len(calls[2].past_key_values) = 2

\* C14: no transformer step is run on the stop token: it is never passed to
\* speech_emb, in a production call with a valid configuration or in a run
\* of the diagnostic loop.
C14_StopNeverFed ==
    /\ ValidConfig(cfg) => STOP_TOKEN \notin Range(fed)
    /\ \A r \in DOMAIN dbg : STOP_TOKEN \notin Range(dbg[r].fed)

\* s without its last element
Front(s) == IF s = <<>> THEN <<>> ELSE SubSeq(s, 1, Len(s) - 1)

\* C15, production loop: the cache handed to a transformer step is the
\* prefill followed by the tokens fed so far, one transformer call per
\* token fed; the token fed is the one just sampled; the tokens fed are the
\* tokens of the list in order, all of them or all but the last.
C15_Production ==
    /\ pc \in {"first", "loop", "sample", "return"} =>
          past_key_values = <<START_TOKEN>> \o fed
    /\ pc \notin {"idle", "build", "prefill"} => oracleCalls = 1 + Len(fed)
    /\ pc = "sample" =>
          /\ fed # <<>>
          /\ fed[Len(fed)] = drawn[Len(drawn)]
    /\ fed \in {generated_speech_tokens, Front(generated_speech_tokens)}
    /\ Returned => fed \in {result, Front(result)}

\* C15, diagnostic loop: the same, the list being speech_tokens after its
\* start token
C15_Diagnostic ==
    \A r \in DOMAIN dbg :
        /\ dbg[r].pc # "prefill" =>
              dbg[r].past_key_values = <<START_TOKEN>> \o dbg[r].fed
        /\ dbg[r].fed = IF dbg[r].pc = "advance"
                        THEN Front(Tail(dbg[r].speech_tokens))
                        ELSE Tail(dbg[r].speech_tokens)

\* C15: within one decode call, of either loop, the steps are strictly
\* sequential: each transformer step gets the cache of the preceding call
\* and the token of the preceding step, and the tokens fed are the returned
\* tokens in order, except possibly the last one.
C15_StrictlySequential == C15_Production /\ C15_Diagnostic

\* a production call has returned three tokens, of which it fed the first
\* two, different ones
C15_Witness ==
    /\ Returned
    /\ Len(result) = 3
    /\ fed = Front(result)
    /\ fed[1] # fed[2]

\* handler h is between the first and the last cb.generate of its request
InChunks(h) == handlers[h].hpc \in {"chunk", "generate"}

\* C16: a handler holds the hardware lock from before its first chunk
\* until after its last one, and only then, so that no two handlers are
\* among their chunks at once; whenever a handler leaves its chunks, by the
\* end of the loop or by a failing generate, the lock is free after the
\* step; a request without text is answered with an error by a step that
\* leaves the lock alone.
C16_LockSpansRequest ==
    [][/\ \A h \in Handlers : InChunks(h) <=> lock_owner = h
       /\ \A h, g \in Handlers : (InChunks(h) /\ InChunks(g)) => h = g
       /\ \A h \in Handlers :
             /\ (InChunks(h) /\ ~InChunks(h)') => lock_owner' = 0
             /\ (handlers[h].hpc = "generate"
                    /\ handlers'[h].hpc = "idle") =>
                   handlers'[h].response.status = "error"
             /\ (handlers[h].hpc = "idle" /\ handlers'[h] # handlers[h]
                    /\ handlers'[h].hpc = "idle") =>
                   /\ handlers'[h].response.status = "error"
                   /\ handlers'[h].response.audio = <<>>
                   /\ lock_owner' = lock_owner]_vars

\* after a failed request of handler 1, handler 2 holds the lock between
\* two chunks of its request
C16_Witness ==
    /\ handlers[1].hpc = "idle"
    /\ handlers[1].response = ErrorResponse("generate")
    /\ handlers[2].hpc = "chunk"
    /\ handlers[2].chunk_i = 1
    /\ Len(handlers[2].chunks) = 2
    /\ lock_owner = 2

====
